---- MODULE Spec2Model ----
(***************************************************************************)
(* Model of ysdc_dataset_api: the feature-map renderers                    *)
(* (rendering/renderering.py) and the per-worker split of scene files      *)
(* (dataset/dataset.py).                                                   *)
(*                                                                         *)
(* Conventions.                                                            *)
(*  - A call that can raise returns [status, value]; status is "ok" or     *)
(*    the name of the Python exception.                                    *)
(*  - Affine transforms are restricted to a uniform scale plus a           *)
(*    translation, x |-> (n*x + tx)/d, y |-> (n*y + ty)/d, kept as the     *)
(*    record [n, tx, ty, d] so that 1/resolution and 0.5*rows stay exact.  *)
(*  - Track polygons are axis-aligned rectangles with integer corners, for *)
(*    which cv2.fillPoly covers every pixel of the closed rectangle fully  *)
(*    (no partially covered edge pixel).                                   *)
(*  - A raster is [channels, rows, cols, planes]; a plane is kept sparse:  *)
(*    a function from the pixels <<x, y>> holding a non-zero value.        *)
(***************************************************************************)
EXTENDS Integers, Sequences, FiniteSets, TLC

VARIABLES
    config,             \* the config dict given to FeatureRenderer.__init__
    pc,                 \* where the FeatureRenderer object / current call is
    err,                \* the exception last raised ("none" when none)
    to_feature_map_tf,  \* FeatureRenderer._to_feature_map_tf
    renderers,          \* FeatureRenderer._renderers
    num_channels,       \* FeatureRenderer._num_channels
    call,               \* arguments of the running render_features call
    fm,                 \* render_features: fm
    slice_start,        \* render_features: slice_start
    ridx,               \* render_features: position in self._renderers
    rfm,                \* renderer.render: feature_map
    kidx,               \* renderer.render: position in self._history_indices
    slices,             \* history: the slices computed by this call, in order
    writes,             \* history: plane writes of the running renderer.render
    first,              \* history: the raster first returned for each input
    again,              \* history: the running call repeats an input
    args,               \* pure-function specifications: the arguments
    ret                 \* pure-function specifications: the result

vars == <<config, pc, err, to_feature_map_tf, renderers, num_channels, call, fm,
          slice_start, ridx, rfm, kidx, slices, writes, first, again, args, ret>>

objVars == <<config, to_feature_map_tf, renderers, num_channels>>
callVars == <<call, fm, slice_start, ridx, rfm, kidx, slices, writes, first, again>>

(***************************************************************************)
(* Bounds and program constants                                            *)
(***************************************************************************)
MAX_HISTORY_LENGTH == 25

MaxStart == 1
MaxStop == 2
MaxStep == 2
RasterSize == 4
MaxScenes == 7
MaxWorkers == 4

Attrs == {"occupancy", "velocity", "acceleration", "yaw"}

Max(a, b) == IF a >= b THEN a ELSE b
Min(a, b) == IF a <= b THEN a ELSE b

(***************************************************************************)
(* Python built-ins used by the code                                       *)
(***************************************************************************)
RECURSIVE PyRangeFrom(_, _, _)
PyRangeFrom(start, stop, step) ==
    IF (step > 0 /\ start >= stop) \/ (step < 0 /\ start <= stop)
    THEN <<>>
    ELSE <<start>> \o PyRangeFrom(start + step, stop, step)

\* list(range(start, stop, step)); range() raises ValueError on step 0.
PyRange(start, stop, step) ==
    IF step = 0
    THEN [status |-> "ValueError", value |-> <<>>]
    ELSE [status |-> "ok", value |-> PyRangeFrom(start, stop, step)]

\* np.around: round a/b (b > 0) to the nearest integer, halves to even.
NpAround(a, b) ==
    LET q == a \div b
        r == a % b
    IN  IF 2 * r < b THEN q
        ELSE IF 2 * r > b THEN q + 1
        ELSE IF q % 2 = 0 THEN q ELSE q + 1

\* a[idx] on an axis of length n: the plane addressed, or -1 for IndexError.
NpIndex(idx, n) ==
    IF idx >= 0 /\ idx < n THEN idx
    ELSE IF idx < 0 /\ idx >= -n THEN idx + n
    ELSE -1

(***************************************************************************)
(* Rasters                                                                 *)
(***************************************************************************)
EmptyPlane == [p \in {} |-> 0]

\* Faulty variant: np.ones in place of np.zeros.
_create_feature_map_ones(rows, cols, channels) ==
    [channels |-> channels, rows |-> rows, cols |-> cols,
     planes |-> [c \in 0..(channels - 1) |->
                    [p \in (0..(cols - 1)) \X (0..(rows - 1)) |-> 1]]]

\* np.zeros([num_channels, rows, cols], dtype=np.float32)
_create_feature_map(rows, cols, channels) ==
    [channels |-> channels, rows |-> rows, cols |-> cols,
     planes |-> [c \in 0..(channels - 1) |-> EmptyPlane]]

PixelValue(plane, p) == IF p \in DOMAIN plane THEN plane[p] ELSE 0

\* The closed rectangle spanned by the polygon's vertices, clipped to the image.
PolygonPixels(polygon, rows, cols) ==
    IF Len(polygon) = 0 THEN {}
    ELSE
    LET xs == {polygon[j][1] : j \in 1..Len(polygon)}
        ys == {polygon[j][2] : j \in 1..Len(polygon)}
        x0 == CHOOSE x \in xs : \A z \in xs : x <= z
        x1 == CHOOSE x \in xs : \A z \in xs : x >= z
        y0 == CHOOSE y \in ys : \A z \in ys : y <= z
        y1 == CHOOSE y \in ys : \A z \in ys : y >= z
    IN  (Max(x0, 0)..Min(x1, cols - 1)) \X (Max(y0, 0)..Min(y1, rows - 1))

\* cv2.fillPoly(plane, polygon, v, lineType=cv2.LINE_AA): every covered pixel is
\* overwritten with v. The planes are float32, for which OpenCV draws the edges
\* as plain 8-connected lines, so no pixel takes a blended value.
FillPoly(plane, polygon, v, rows, cols) ==
    LET region == PolygonPixels(polygon, rows, cols)
        keep == IF v = 0 THEN DOMAIN plane \ region ELSE DOMAIN plane \cup region
    IN  [p \in keep |-> IF p \in region THEN v ELSE plane[p]]

(***************************************************************************)
(* Transforms (ysdc_dataset_api.utils and the matrix product)              *)
(***************************************************************************)
\* A @ B
MatMul(A, B) ==
    [n |-> A.n * B.n,
     tx |-> A.n * B.tx + A.tx * B.d,
     ty |-> A.n * B.ty + A.ty * B.d,
     d |-> A.d * B.d]

\* utils.get_track_polygon: the footprint's vertices in the track's frame.
get_track_polygon(track) == track.polygon

\* utils.get_transformed_velocity: the linear part of the transform only.
get_transformed_velocity(track, tf) ==
    <<(tf.n * track.velocity[1]) \div tf.d, (tf.n * track.velocity[2]) \div tf.d>>

\* utils.get_transformed_acceleration: the linear part of the transform only.
get_transformed_acceleration(track, tf) ==
    <<(tf.n * track.acceleration[1]) \div tf.d,
      (tf.n * track.acceleration[2]) \div tf.d>>

\* utils.transform2dpoints: the affine transform applied to each point, in
\* order; the result is given in units of 1/tf.d.
transform2dpoints(points, tf) ==
    [j \in 1..Len(points) |->
        <<tf.n * points[j][1] + tf.tx, tf.n * points[j][2] + tf.ty>>]

\* FeatureMapRendererBase._get_transformed_track_polygon:
\* np.around(transform2dpoints(polygon, transform) - 0.5).astype(np.int32)
_get_transformed_track_polygon(track, tf) ==
    LET polygon == transform2dpoints(get_track_polygon(track), tf)
    IN  [j \in 1..Len(polygon) |->
            <<NpAround(2 * polygon[j][1] - tf.d, 2 * tf.d),
              NpAround(2 * polygon[j][2] - tf.d, 2 * tf.d)>>]

\* Faulty variant: the scale is the resolution, not its inverse.
_get_to_feature_map_transform_scale(fmp) ==
    [n |-> 2 * fmp.resolution[1],
     tx |-> fmp.resolution[2] * fmp.rows,
     ty |-> fmp.resolution[2] * fmp.cols,
     d |-> 2 * fmp.resolution[2]]

\* FeatureRenderer._get_to_feature_map_transform; resolution is <<num, den>>.
_get_to_feature_map_transform(fmp) ==
    [n |-> 2 * fmp.resolution[2],
     tx |-> fmp.resolution[1] * fmp.rows,
     ty |-> fmp.resolution[1] * fmp.cols,
     d |-> 2 * fmp.resolution[1]]

(***************************************************************************)
(* History sampler and time-grid validation                                *)
(***************************************************************************)
\* Faulty variant: the range starts at -stop, one offset late.
_get_history_indices_late(time_grid_params) ==
    PyRange(-time_grid_params.stop, -time_grid_params.start,
            time_grid_params.step)

\* FeatureMapRendererBase._get_history_indices
_get_history_indices(time_grid_params) ==
    PyRange(-time_grid_params.stop - 1, -time_grid_params.start,
            time_grid_params.step)

\* FeatureRenderer._validate_time_grid
_validate_time_grid(time_grid_params) ==
    IF time_grid_params.start < 0 THEN "ValueError"
    ELSE IF time_grid_params.stop < 0 THEN "ValueError"
    ELSE IF time_grid_params.start > time_grid_params.stop THEN "ValueError"
    ELSE IF time_grid_params.stop + 1 > MAX_HISTORY_LENGTH THEN "ValueError"
    ELSE "ok"

(***************************************************************************)
(* Channel encoders                                                        *)
(***************************************************************************)
\* Faulty variant: velocity counted as one channel.
Vehicle_get_num_channels_short(cfg) ==
    (IF "occupancy" \in cfg THEN 1 ELSE 0)
    + (IF "velocity" \in cfg THEN 1 ELSE 0)
    + (IF "acceleration" \in cfg THEN 2 ELSE 0)
    + (IF "yaw" \in cfg THEN 1 ELSE 0)

\* VehicleTracksRenderer._get_num_channels
Vehicle_get_num_channels(cfg) ==
    (IF "occupancy" \in cfg THEN 1 ELSE 0)
    + (IF "velocity" \in cfg THEN 2 ELSE 0)
    + (IF "acceleration" \in cfg THEN 2 ELSE 0)
    + (IF "yaw" \in cfg THEN 1 ELSE 0)

\* VehicleTracksRenderer._get_fm_values
Vehicle_get_fm_values(cfg, track, to_track_transform) ==
    (IF "occupancy" \in cfg THEN <<1>> ELSE <<>>)
    \o (IF "velocity" \in cfg
        THEN get_transformed_velocity(track, to_track_transform) ELSE <<>>)
    \o (IF "acceleration" \in cfg
        THEN get_transformed_acceleration(track, to_track_transform) ELSE <<>>)
    \o (IF "yaw" \in cfg THEN <<track.yaw>> ELSE <<>>)

\* PedestrianTracksRenderer._get_num_channels
Pedestrian_get_num_channels(cfg) ==
    (IF "occupancy" \in cfg THEN 1 ELSE 0)
    + (IF "velocity" \in cfg THEN 2 ELSE 0)

\* PedestrianTracksRenderer._get_fm_values
Pedestrian_get_fm_values(cfg, track, to_track_transform) ==
    (IF "occupancy" \in cfg THEN <<1>> ELSE <<>>)
    \o (IF "velocity" \in cfg
        THEN get_transformed_velocity(track, to_track_transform) ELSE <<>>)

_get_num_channels(kind, cfg) ==
    IF kind = "vehicles" THEN Vehicle_get_num_channels(cfg)
    ELSE Pedestrian_get_num_channels(cfg)

_get_fm_values(kind, cfg, track, to_track_transform) ==
    IF kind = "vehicles" THEN Vehicle_get_fm_values(cfg, track, to_track_transform)
    ELSE Pedestrian_get_fm_values(cfg, track, to_track_transform)

(***************************************************************************)
(* Construction of the renderers                                           *)
(***************************************************************************)
\* FeatureMapRendererBase.__init__ for one of the two subclasses
NewRenderer(kind, cfg, feature_map_params, time_grid_params, tf) ==
    LET h == _get_history_indices(time_grid_params)
    IN  IF h.status # "ok" THEN [status |-> h.status, value |-> <<>>]
        ELSE [status |-> "ok",
              value |-> [kind |-> kind, config |-> cfg,
                         feature_map_params |-> feature_map_params,
                         history_indices |-> h.value,
                         num_channels |-> _get_num_channels(kind, cfg),
                         to_feature_map_tf |-> tf]]

\* FeatureRenderer._create_renderer; renderer_config is a dict keyed by kind.
_create_renderer(renderer_config, feature_map_params, time_grid_params, tf) ==
    IF "vehicles" \in DOMAIN renderer_config
    THEN NewRenderer("vehicles", renderer_config["vehicles"],
                     feature_map_params, time_grid_params, tf)
    ELSE IF "pedestrians" \in DOMAIN renderer_config
    THEN NewRenderer("pedestrians", renderer_config["pedestrians"],
                     feature_map_params, time_grid_params, tf)
    ELSE [status |-> "NotImplementedError", value |-> <<>>]

\* The body of the inner loop of _create_renderers_list for one renderer_config:
\* the group's time grid is validated here, once per renderer of the group.
CreateOne(group, renderer_config, feature_map_params, tf) ==
    IF _validate_time_grid(group.time_grid_params) # "ok"
    THEN [status |-> "ValueError", value |-> <<>>]
    ELSE _create_renderer(renderer_config, feature_map_params,
                          group.time_grid_params, tf)

RECURSIVE CreateFrom(_, _, _, _, _, _)
CreateFrom(groups, g, r, acc, feature_map_params, tf) ==
    IF g > Len(groups) THEN [status |-> "ok", value |-> acc]
    ELSE IF r > Len(groups[g].renderers)
    THEN CreateFrom(groups, g + 1, 1, acc, feature_map_params, tf)
    ELSE LET one == CreateOne(groups[g], groups[g].renderers[r],
                              feature_map_params, tf)
         IN  IF one.status # "ok" THEN [status |-> one.status, value |-> <<>>]
             ELSE CreateFrom(groups, g, r + 1, Append(acc, one.value),
                             feature_map_params, tf)

\* FeatureRenderer._create_renderers_list
_create_renderers_list(cfg, tf) ==
    CreateFrom(cfg.renderers_groups, 1, 1, <<>>, cfg.feature_map_params, tf)

n_history_steps(renderer) == Len(renderer.history_indices)

RECURSIVE SumChannels(_, _)
SumChannels(rs, j) ==
    IF j > Len(rs) THEN 0
    ELSE rs[j].num_channels * n_history_steps(rs[j]) + SumChannels(rs, j + 1)

RECURSIVE SumNumChannels(_, _)
SumNumChannels(rs, j) ==
    IF j > Len(rs) THEN 0 ELSE rs[j].num_channels + SumNumChannels(rs, j + 1)

\* Faulty variant: the history depth is left out of the sum.
FeatureRenderer_get_num_channels_flat(rs) == SumNumChannels(rs, 1)

\* FeatureRenderer._get_num_channels
FeatureRenderer_get_num_channels(rs) == SumChannels(rs, 1)

(***************************************************************************)
(* Scenes                                                                  *)
(***************************************************************************)
History == (-MAX_HISTORY_LENGTH)..(-1)

Rect(x0, y0, x1, y1) == <<<<x0, y0>>, <<x1, y0>>, <<x1, y1>>, <<x0, y1>>>>

Track(polygon, velocity, acceleration, yaw) ==
    [polygon |-> polygon, velocity |-> velocity,
     acceleration |-> acceleration, yaw |-> yaw]

NoTracks == [tracks |-> <<>>]

\* A scene holding nothing but the ego vehicle, a 4 m x 4 m square at the origin.
SceneEgoOnly ==
    [past_vehicle_tracks |-> [ts \in History |-> NoTracks],
     past_pedestrian_tracks |-> [ts \in History |-> NoTracks],
     past_ego_track |-> [ts \in History |->
        Track(Rect(-2, -2, 2, 2), <<3, 0>>, <<0, 0>>, 0)]]

\* Two overlapping vehicles, the ego overlapping both, and a pedestrian that is
\* tracked over the two most recent offsets only.
SceneTraffic ==
    [past_vehicle_tracks |-> [ts \in History |->
        [tracks |-> << Track(Rect(-2, -2, 0, 0), <<-ts, 1>>, <<2, 0>>, 5),
                       Track(Rect(0, -2, 2, 0), <<-ts, 4>>, <<0, 3>>, 6) >>]],
     past_pedestrian_tracks |-> [ts \in History |->
        IF ts >= -2
        THEN [tracks |-> << Track(Rect(-1, 0, 0, 1), <<7, -ts>>, <<0, 0>>, 0) >>]
        ELSE NoTracks],
     past_ego_track |-> [ts \in History |->
        Track(Rect(-2, 0, 2, 2), <<8, -ts>>, <<1, 1>>, 9)]]

\* The scene objects a call can be given, by name.
Scene(name) == IF name = "ego_only" THEN SceneEgoOnly ELSE SceneTraffic

(***************************************************************************)
(* Rendering one history offset                                            *)
(***************************************************************************)
\* Faulty variant: the ego track is drawn first.
DrawOrder_ego_first(kind, scene, ts_ind) ==
    IF kind = "vehicles"
    THEN <<scene.past_ego_track[ts_ind]>> \o scene.past_vehicle_tracks[ts_ind].tracks
    ELSE scene.past_pedestrian_tracks[ts_ind].tracks

\* The tracks drawn for ts_ind, in drawing order.
DrawOrder(kind, scene, ts_ind) ==
    IF kind = "vehicles"
    THEN scene.past_vehicle_tracks[ts_ind].tracks \o <<scene.past_ego_track[ts_ind]>>
    ELSE scene.past_pedestrian_tracks[ts_ind].tracks

\* The plane addressed by feature_map[ts_ind * self.num_channels + i, :, :].
PlaneOf(buf, renderer, ts_ind, i) ==
    NpIndex(ts_ind * renderer.num_channels + i, buf.channels)

\* for i, v in enumerate(values): cv2.fillPoly(feature_map[...], polygon, v)
RECURSIVE DrawValues(_, _, _, _, _, _, _)
DrawValues(st, renderer, ts_ind, k, polygon, values, i) ==
    IF st.status # "ok" \/ i >= Len(values) THEN st
    ELSE LET plane == PlaneOf(st.buf, renderer, ts_ind, i)
         IN  IF plane < 0
             THEN [st EXCEPT !.status = "IndexError"]
             ELSE DrawValues(
                    [status |-> "ok",
                     buf |-> [st.buf EXCEPT !.planes[plane] =
                                FillPoly(@, polygon, values[i + 1],
                                         st.buf.rows, st.buf.cols)],
                     writes |-> st.writes \cup {[k |-> k, i |-> i, plane |-> plane]}],
                    renderer, ts_ind, k, polygon, values, i + 1)

RECURSIVE DrawTracks(_, _, _, _, _, _, _)
DrawTracks(st, renderer, tracks, j, ts_ind, k, c) ==
    IF st.status # "ok" \/ j > Len(tracks) THEN st
    ELSE DrawTracks(
            DrawValues(st, renderer, ts_ind, k,
                       _get_transformed_track_polygon(
                           tracks[j],
                           MatMul(renderer.to_feature_map_tf, c.to_track_transform)),
                       _get_fm_values(renderer.kind, renderer.config, tracks[j],
                                      c.to_track_transform),
                       0),
            renderer, tracks, j + 1, ts_ind, k, c)

\* One pass of the loop "for ts_ind in self._history_indices" of render();
\* k is the 0-based position of ts_ind in the history indices.
RenderStep(buf, renderer, k, c) ==
    LET ts_ind == renderer.history_indices[k + 1]
    IN  DrawTracks([status |-> "ok", buf |-> buf, writes |-> {}], renderer,
                   DrawOrder(renderer.kind, Scene(c.scene), ts_ind), 1, ts_ind, k, c)

(***************************************************************************)
(* Inputs                                                                  *)
(***************************************************************************)
IdentityTf == [n |-> 1, tx |-> 0, ty |-> 0, d |-> 1]
\* A half turn about the origin.
FlipTf == [n |-> -1, tx |-> 0, ty |-> 0, d |-> 1]

ScenarioCall == [scene |-> "ego_only", to_track_transform |-> IdentityTf]

Calls == {ScenarioCall,
          [scene |-> "traffic", to_track_transform |-> FlipTf]}

TimeGrids ==
    [start : 0..MaxStart,
     stop : (0..MaxStop) \cup {MAX_HISTORY_LENGTH},
     step : 1..MaxStep]

RendererConfigs ==
    { "vehicles" :> {"occupancy", "velocity"},
      "vehicles" :> {},
      "pedestrians" :> {"occupancy"},
      "cyclists" :> {"occupancy"} }

RendererLists == {<<>>} \cup {<<r>> : r \in RendererConfigs}

RendererPairs == {<<r[1], r[2]>> : r \in RendererConfigs \X RendererConfigs}

Groups == [time_grid_params : TimeGrids, renderers : RendererLists]

PairGroups == [time_grid_params : TimeGrids, renderers : RendererPairs]

\* One group of up to two renderers, or two groups of up to one renderer each.
GroupLists ==
    {<<g>> : g \in Groups \cup PairGroups}
    \cup {<<g[1], g[2]>> : g \in Groups \X Groups}

SmallParams == [rows |-> RasterSize, cols |-> RasterSize, resolution |-> <<1, 1>>]

\* rows 128, cols 128, resolution 0.5; one vehicle renderer, occupancy only.
ScenarioConfig ==
    [feature_map_params |-> [rows |-> 128, cols |-> 128, resolution |-> <<1, 2>>],
     renderers_groups |->
        << [time_grid_params |-> [start |-> 0, stop |-> 0, step |-> 1],
            renderers |-> << "vehicles" :> {"occupancy"} >>] >>]

Configs ==
    {[feature_map_params |-> SmallParams, renderers_groups |-> gl] : gl \in GroupLists}
    \cup {ScenarioConfig}

(***************************************************************************)
(* The FeatureRenderer object and its render_features calls                *)
(***************************************************************************)
NoRaster == _create_feature_map(0, 0, 0)
NoCall == [scene |-> "none", to_track_transform |-> IdentityTf]
NotReturned == [status |-> "none"]

NoObject ==
    /\ to_feature_map_tf = IdentityTf
    /\ renderers = <<>>
    /\ num_channels = 0

NoRender ==
    /\ call = NoCall
    /\ fm = NoRaster
    /\ slice_start = 0
    /\ ridx = 0
    /\ rfm = NoRaster
    /\ kidx = 0
    /\ slices = <<>>
    /\ writes = {}
    /\ first = [c \in Calls |-> NotReturned]
    /\ again = FALSE

Init ==
    /\ config \in Configs
    /\ pc = "new"
    /\ err = "none"
    /\ NoObject
    /\ NoRender
    /\ args = "none"
    /\ ret = "none"

\* FeatureRenderer.__init__
Construct ==
    /\ pc = "new"
    /\ LET tf == _get_to_feature_map_transform(config.feature_map_params)
           made == _create_renderers_list(config, tf)
       IN  /\ to_feature_map_tf' = tf
           /\ renderers' = made.value
           /\ num_channels' = FeatureRenderer_get_num_channels(made.value)
           /\ err' = IF made.status = "ok" THEN "none" ELSE made.status
           /\ pc' = IF made.status = "ok" THEN "constructed" ELSE "failed"
    /\ UNCHANGED <<config, callVars, args, ret>>

\* render_features is entered: fm is allocated and slice_start set to 0.
BeginRender ==
    /\ pc \in {"constructed", "returned", "raised"}
    /\ \E c \in Calls :
        /\ call' = c
        /\ again' = (first[c] # NotReturned)
    /\ fm' = _create_feature_map(config.feature_map_params.rows,
                                 config.feature_map_params.cols, num_channels)
    /\ slice_start' = 0
    /\ ridx' = 1
    /\ slices' = <<>>
    /\ writes' = {}
    /\ kidx' = 0
    /\ rfm' = NoRaster
    /\ err' = "none"
    /\ pc' = "assembling"
    /\ UNCHANGED <<objVars, first, args, ret>>

\* renderer.render is entered for the next renderer: its buffer is allocated.
RendererBegin ==
    /\ pc = "assembling"
    /\ ridx <= Len(renderers)
    /\ LET r == renderers[ridx]
       IN  rfm' = _create_feature_map(r.feature_map_params.rows,
                                      r.feature_map_params.cols,
                                      r.num_channels * n_history_steps(r))
    /\ kidx' = 0
    /\ writes' = {}
    /\ pc' = "rendering"
    /\ UNCHANGED <<objVars, err, call, fm, slice_start, ridx, slices, first, again,
                   args, ret>>

\* One history offset of renderer.render: every track of the offset is drawn.
RenderTimestep ==
    /\ pc = "rendering"
    /\ kidx < n_history_steps(renderers[ridx])
    /\ LET st == RenderStep(rfm, renderers[ridx], kidx, call)
       IN  IF st.status = "ok"
           THEN /\ rfm' = st.buf
                /\ writes' = writes \cup st.writes
                /\ kidx' = kidx + 1
                /\ UNCHANGED <<pc, err>>
           ELSE /\ pc' = "raised"
                /\ err' = st.status
                /\ UNCHANGED <<rfm, writes, kidx>>
    /\ UNCHANGED <<objVars, call, fm, slice_start, ridx, slices, first, again,
                   args, ret>>

\* fm[slice_start:slice_end, :, :] = buf
AssignSlice(dst, lo, hi, buf) ==
    LET a == Min(lo, dst.channels)
        b == Min(hi, dst.channels)
        len == Max(b - a, 0)
    IN  IF buf.channels = len
        THEN [status |-> "ok",
              value |-> [dst EXCEPT !.planes =
                            [c \in DOMAIN @ |->
                                IF c >= a /\ c < b THEN buf.planes[c - a] ELSE @[c]]]]
        ELSE IF buf.channels = 1
        THEN [status |-> "ok",
              value |-> [dst EXCEPT !.planes =
                            [c \in DOMAIN @ |->
                                IF c >= a /\ c < b THEN buf.planes[0] ELSE @[c]]]]
        ELSE [status |-> "ValueError", value |-> dst]

\* The slice render_features gives the renderer, from the running slice_start.
SliceEnd(start, renderer) ==
    start + renderer.num_channels * n_history_steps(renderer)

\* renderer.render returns and its buffer is copied into its slice of fm.
RendererReturn ==
    /\ pc = "rendering"
    /\ kidx >= n_history_steps(renderers[ridx])
    /\ LET slice_end == SliceEnd(slice_start, renderers[ridx])
           set == AssignSlice(fm, slice_start, slice_end, rfm)
       IN  /\ slices' = Append(slices, <<slice_start, slice_end>>)
           /\ IF set.status = "ok"
              THEN /\ fm' = set.value
                   /\ slice_start' = slice_end
                   /\ ridx' = ridx + 1
                   /\ pc' = "assembling"
                   /\ UNCHANGED err
              ELSE /\ pc' = "raised"
                   /\ err' = set.status
                   /\ UNCHANGED <<fm, slice_start, ridx>>
    /\ UNCHANGED <<objVars, call, rfm, kidx, writes, first, again, args, ret>>

\* render_features returns fm.
Return ==
    /\ pc = "assembling"
    /\ ridx > Len(renderers)
    /\ pc' = "returned"
    /\ first' = IF first[call] = NotReturned
                THEN [first EXCEPT ![call] = [status |-> "returned", raster |-> fm]]
                ELSE first
    /\ UNCHANGED <<objVars, err, call, fm, slice_start, ridx, rfm, kidx, slices,
                   writes, again, args, ret>>

Next ==
    \/ Construct
    \/ BeginRender
    \/ RendererBegin
    \/ RenderTimestep
    \/ RendererReturn
    \/ Return

Spec == Init /\ [][Next]_vars

(***************************************************************************)
(* The history sampler on its own                                          *)
(***************************************************************************)
NotCalled == [status |-> "none"]

PureIdle ==
    /\ config = ScenarioConfig
    /\ pc = "pure"
    /\ err = "none"
    /\ NoObject
    /\ NoRender

SamplerGrids ==
    [start : (-1..MaxStop) \cup {MAX_HISTORY_LENGTH - 1},
     stop : (-1..MaxStop) \cup {MAX_HISTORY_LENGTH - 1, MAX_HISTORY_LENGTH},
     step : (-MaxStep)..MaxStep]

InitSampler ==
    /\ PureIdle
    /\ args \in SamplerGrids
    /\ ret = NotCalled

\* _validate_time_grid, then (when it returns) _get_history_indices
Sample ==
    /\ ret = NotCalled
    /\ ret' = [status |-> "called",
               valid |-> _validate_time_grid(args),
               sample |-> IF _validate_time_grid(args) = "ok"
                          THEN _get_history_indices(args)
                          ELSE [status |-> "skipped", value |-> <<>>]]
    /\ UNCHANGED <<objVars, callVars, config, pc, err, args>>

SpecSampler == InitSampler /\ [][Sample]_vars

(***************************************************************************)
(* The channel encoders on their own                                       *)
(***************************************************************************)
EncoderTracks ==
    { Track(Rect(-1, -1, 1, 1), <<2, 3>>, <<4, 5>>, 6),
      Track(Rect(0, 0, 1, 2), <<7, -8>>, <<-9, 10>>, 11) }

InitEncoder ==
    /\ PureIdle
    /\ args \in [kind : {"vehicles", "pedestrians"},
                 config : SUBSET Attrs,
                 track : EncoderTracks,
                 to_track_transform : {IdentityTf, FlipTf}]
    /\ ret = NotCalled

\* _get_num_channels (at construction) and _get_fm_values (for one track)
Encode ==
    /\ ret = NotCalled
    /\ ret' = [status |-> "called",
               num_channels |-> _get_num_channels(args.kind, args.config),
               values |-> _get_fm_values(args.kind, args.config, args.track,
                                         args.to_track_transform)]
    /\ UNCHANGED <<objVars, callVars, config, pc, err, args>>

SpecEncoder == InitEncoder /\ [][Encode]_vars

(***************************************************************************)
(* MotionPredictionDataset._split_filepaths_by_worker                      *)
(***************************************************************************)
\* self._scene_file_paths[start:stop]
PySlice(seq, start, stop) == SubSeq(seq, start + 1, Min(stop, Len(seq)))

\* Faulty variant: the last worker stops after n_scenes_per_worker files like the others.
_split_filepaths_by_worker_even(scene_file_paths, worker_id, num_workers) ==
    LET num_scenes == Len(scene_file_paths)
        n_scenes_per_worker == num_scenes \div num_workers
        split == PyRange(0, num_scenes, n_scenes_per_worker)
    IN  IF split.status # "ok" THEN [status |-> split.status, value |-> <<>>]
        ELSE IF worker_id + 1 > Len(split.value)
        THEN [status |-> "IndexError", value |-> <<>>]
        ELSE [status |-> "ok",
              value |-> PySlice(scene_file_paths, split.value[worker_id + 1],
                                split.value[worker_id + 1] + n_scenes_per_worker)]

_split_filepaths_by_worker(scene_file_paths, worker_id, num_workers) ==
    LET num_scenes == Len(scene_file_paths)
        n_scenes_per_worker == num_scenes \div num_workers
        split == PyRange(0, num_scenes, n_scenes_per_worker)
    IN  IF split.status # "ok" THEN [status |-> split.status, value |-> <<>>]
        ELSE IF worker_id + 1 > Len(split.value)
        THEN [status |-> "IndexError", value |-> <<>>]
        ELSE IF worker_id = num_workers - 1
        THEN [status |-> "ok",
              value |-> PySlice(scene_file_paths, split.value[worker_id + 1],
                                num_scenes)]
        ELSE IF worker_id + 2 > Len(split.value)
        THEN [status |-> "IndexError", value |-> <<>>]
        ELSE [status |-> "ok",
              value |-> PySlice(scene_file_paths, split.value[worker_id + 1],
                                split.value[worker_id + 2])]

\* The scene files, named by their position.
ScenePaths(n) == [j \in 1..n |-> j]

InitSplit ==
    /\ PureIdle
    /\ args \in [num_scenes : 0..MaxScenes, num_workers : 1..MaxWorkers]
    /\ ret = <<>>

\* __iter__ in one DataLoader worker: the worker asks for its slice.
SplitForWorker ==
    /\ \E w \in (0..(args.num_workers - 1)) \ DOMAIN ret :
        ret' = ret @@ (w :> _split_filepaths_by_worker(
                                ScenePaths(args.num_scenes), w, args.num_workers))
    /\ UNCHANGED <<objVars, callVars, config, pc, err, args>>

SpecSplit == InitSplit /\ [][SplitForWorker]_vars

(***************************************************************************)
(* Properties                                                              *)
(***************************************************************************)
\* ceil(a / b) for b # 0
CeilDiv(a, b) == IF b > 0 THEN -((-a) \div b) ELSE -(a \div (-b))

SampleAccepted == ret # NotCalled /\ ret.valid = "ok"

Increasing(h) == \A j \in 1..(Len(h) - 1) : h[j] < h[j + 1]

\* C1 as stated, on the accepted time grids with step >= 1: the history index
\* list has length ceil((stop - start) / step), its offsets are below -start,
\* and it increases strictly.
C1_LengthAsStated ==
    (SampleAccepted /\ args.step >= 1) =>
        /\ ret.sample.status = "ok"
        /\ Len(ret.sample.value) = CeilDiv(args.stop - args.start, args.step)
        /\ \A j \in 1..Len(ret.sample.value) : ret.sample.value[j] < -args.start
        /\ Increasing(ret.sample.value)

\* C1 amended: for an accepted time grid with step # 0 the list has length
\* max(0, ceil((stop - start + 1) / step)), its offsets lie in
\* [-stop - 1, -start) and increase strictly; with step = 0 building the list
\* raises ValueError.
C1_HistoryIndices ==
    SampleAccepted =>
        IF args.step = 0
        THEN ret.sample.status = "ValueError"
        ELSE /\ ret.sample.status = "ok"
             /\ Len(ret.sample.value) =
                    Max(0, CeilDiv(args.stop - args.start + 1, args.step))
             /\ \A j \in 1..Len(ret.sample.value) :
                    /\ ret.sample.value[j] < -args.start
                    /\ ret.sample.value[j] >= -args.stop - 1
             /\ Increasing(ret.sample.value)

C1_Witness ==
    /\ SampleAccepted
    /\ args.step > 1
    /\ args.start > 0
    /\ Len(ret.sample.value) > 1

InvalidGrid(t) == t.stop >= MAX_HISTORY_LENGTH \/ t.start > t.stop

\* C2: once the constructor has run on a configuration in which some group's
\* time grid has stop >= 25 or start > stop, it has raised (no FeatureRenderer
\* exists to render with), whatever the group's list of renderers holds.
C2_InvalidGridRaises ==
    (/\ pc # "new"
     /\ \E g \in 1..Len(config.renderers_groups) :
            InvalidGrid(config.renderers_groups[g].time_grid_params))
    => pc = "failed"

\* C3: a render_features call on a constructed FeatureRenderer never raises.
C3_RenderNeverRaises == pc # "raised"

\* C4: every plane write of the k-th sampled offset (k from 0) for attribute i
\* lands in plane k * channels + i of the renderer's buffer.
C4_WritesInOwnBlock ==
    pc = "rendering" =>
        \A w \in writes : w.plane = w.k * renderers[ridx].num_channels + w.i

SliceRange(sl) == sl[1]..(sl[2] - 1)

\* C5: the slices render_features computes, in configuration order, start at 0,
\* follow one another without gap or overlap, stay within the channels of the
\* allocated raster, and cover exactly all of them when the call returns.
C5_SlicesPartitionChannels ==
    pc \in {"assembling", "rendering", "returned", "raised"} =>
        /\ \A j \in 1..Len(slices) :
            /\ slices[j][1] = (IF j = 1 THEN 0 ELSE slices[j - 1][2])
            /\ slices[j][1] <= slices[j][2]
            /\ slices[j][2] <= fm.channels
        /\ \A i \in 1..Len(slices) : \A j \in 1..Len(slices) :
            i # j => SliceRange(slices[i]) \cap SliceRange(slices[j]) = {}
        /\ pc = "returned" =>
            /\ Len(slices) = Len(renderers)
            /\ UNION {SliceRange(slices[j]) : j \in 1..Len(slices)}
                    = 0..(fm.channels - 1)

C5_Witness ==
    /\ pc = "returned"
    /\ Len(slices) = 2
    /\ slices[1][2] - slices[1][1] > 1
    /\ slices[2][2] - slices[2][1] > 0
    /\ slices[2][2] - slices[2][1] # slices[1][2] - slices[1][1]

TrackValues(renderer, track, c) ==
    _get_fm_values(renderer.kind, renderer.config, track, c.to_track_transform)

\* The canonical channel order: occupancy, velocity x, y, acceleration x, y, yaw.
CanonicalValues(track, tf) ==
    << [attr |-> "occupancy", v |-> 1],
       [attr |-> "velocity", v |-> get_transformed_velocity(track, tf)[1]],
       [attr |-> "velocity", v |-> get_transformed_velocity(track, tf)[2]],
       [attr |-> "acceleration", v |-> get_transformed_acceleration(track, tf)[1]],
       [attr |-> "acceleration", v |-> get_transformed_acceleration(track, tf)[2]],
       [attr |-> "yaw", v |-> track.yaw] >>

EnabledAttrs(kind, cfg) ==
    IF kind = "vehicles" THEN cfg ELSE cfg \cap {"occupancy", "velocity"}

ExpectedValues(kind, cfg, track, tf) ==
    LET Enabled(e) == e.attr \in EnabledAttrs(kind, cfg)
        sel == SelectSeq(CanonicalValues(track, tf), Enabled)
    IN  [j \in 1..Len(sel) |-> sel[j].v]

\* C6: for every set of enabled attributes the value vector of a track is as
\* long as the channel count of the same configuration, and holds the enabled
\* attributes in the order occupancy, velocity x, y, acceleration x, y, yaw.
C6_ValuesMatchChannels ==
    ret # NotCalled =>
        /\ Len(ret.values) = ret.num_channels
        /\ ret.values = ExpectedValues(args.kind, args.config, args.track,
                                       args.to_track_transform)

C6_Witness ==
    /\ ret # NotCalled
    /\ args.kind = "vehicles"
    /\ args.config = Attrs
    /\ args.to_track_transform = FlipTf
    /\ ret.num_channels = 6

AllZero(raster) == \A c \in DOMAIN raster.planes : raster.planes[c] = EmptyPlane

C7_State ==
    /\ (pc = "assembling" /\ ridx = 1) => (AllZero(fm) /\ fm.channels = num_channels)
    /\ (pc = "rendering" /\ kidx = 0) => AllZero(rfm)
    /\ pc = "returned" =>
        /\ first[call].status = "returned"
        /\ first[call].raster = fm

C7_Step ==
    /\ pc # "new" => objVars' = objVars
    /\ pc \in {"assembling", "rendering"} => call' = call

\* C7: every call starts from a fresh all-zero raster, no step of a call
\* changes the renderer list, the renderers' configuration and history indices,
\* the raster transform or the scene, and a call returns the raster that the
\* first call with the same scene and transform returned.
C7_RenderIsPure == []C7_State /\ [][C7_Step]_vars

C7_Witness ==
    /\ pc = "returned"
    /\ again
    /\ call.scene = "traffic"
    /\ ~AllZero(fm)
    /\ first[ScenarioCall] # NotReturned

ScenarioRendered ==
    /\ config = ScenarioConfig
    /\ call = ScenarioCall
    /\ pc = "returned"

Filled(plane) == {p \in DOMAIN plane : plane[p] # 0}

\* C8 as stated: the scenario's output has shape [1, 128, 128] and its filled
\* region is an 8 x 8 pixel square around pixel (64, 64), value 1, all else 0.
C8_EightByEight ==
    ScenarioRendered =>
        /\ <<fm.channels, fm.rows, fm.cols>> = <<1, 128, 128>>
        /\ \E x0 \in 57..64 : \E y0 \in 57..64 :
            /\ Filled(fm.planes[0]) = (x0..(x0 + 7)) \X (y0..(y0 + 7))
            /\ \A p \in Filled(fm.planes[0]) : fm.planes[0][p] = 1

\* C8 amended: the scenario's output has shape [1, 128, 128]; the polygon's
\* pixel vertices lie at 60 and 68 on both axes (8 apart), and the filled
\* region is the closed square of pixels 60..68, 9 x 9 pixels centred on
\* (64, 64), with value 1; every other pixel is 0.
C8_NineByNine ==
    ScenarioRendered =>
        /\ <<fm.channels, fm.rows, fm.cols>> = <<1, 128, 128>>
        /\ _get_transformed_track_polygon(
                Scene(call.scene).past_ego_track[-1],
                MatMul(to_feature_map_tf, call.to_track_transform))
           = Rect(60, 60, 68, 68)
        /\ fm.planes[0] = [p \in (60..68) \X (60..68) |-> 1]

C8_Witness == ScenarioRendered /\ Filled(fm.planes[0]) # {}

Covered(renderer, track, c) ==
    PolygonPixels(
        _get_transformed_track_polygon(
            track, MatMul(renderer.to_feature_map_tf, c.to_track_transform)),
        renderer.feature_map_params.rows, renderer.feature_map_params.cols)

\* What pixel p of attribute i's plane must hold once offset ts is rendered.
LastWriteWins(renderer, c, ts, i, p) ==
    LET others == Scene(c.scene).past_vehicle_tracks[ts].tracks
        ego == Scene(c.scene).past_ego_track[ts]
        over == {j \in 1..Len(others) : p \in Covered(renderer, others[j], c)}
    IN  IF p \in Covered(renderer, ego, c)
        THEN TrackValues(renderer, ego, c)[i + 1]
        ELSE IF over = {} THEN 0
        ELSE TrackValues(renderer, others[CHOOSE j \in over : \A l \in over : l <= j],
                         c)[i + 1]

\* C9: once the vehicle renderer has rendered a history offset, in each of the
\* offset's channel planes every pixel under the ego polygon holds the ego's
\* value, and every other pixel holds the value of the last vehicle track, in
\* the scene's list order, that covers it (0 when none does).
C9_LastDrawnWins ==
    (pc = "rendering" /\ renderers[ridx].kind = "vehicles") =>
        LET r == renderers[ridx]
        IN  \A k \in 0..(kidx - 1) : \A i \in 0..(r.num_channels - 1) :
                LET ts == r.history_indices[k + 1]
                    plane == rfm.planes[PlaneOf(rfm, r, ts, i)]
                IN  \A p \in (0..(rfm.cols - 1)) \X (0..(rfm.rows - 1)) :
                        PixelValue(plane, p) = LastWriteWins(r, call, ts, i, p)

C9_Witness ==
    /\ pc = "rendering"
    /\ renderers[ridx].kind = "vehicles"
    /\ renderers[ridx].num_channels = 3
    /\ kidx = 2
    /\ call.scene = "traffic"
    /\ \E p \in (0..(rfm.cols - 1)) \X (0..(rfm.rows - 1)) :
        LET r == renderers[ridx]
            others == Scene(call.scene).past_vehicle_tracks[-1].tracks
        IN  /\ p \in Covered(r, others[1], call)
            /\ p \in Covered(r, others[2], call)
            /\ p \in Covered(r, Scene(call.scene).past_ego_track[-1], call)
    /\ \E p \in (0..(rfm.cols - 1)) \X (0..(rfm.rows - 1)) :
        LET r == renderers[ridx]
            others == Scene(call.scene).past_vehicle_tracks[-1].tracks
        IN  /\ p \in Covered(r, others[1], call)
            /\ p \in Covered(r, others[2], call)
            /\ p \notin Covered(r, Scene(call.scene).past_ego_track[-1], call)

AllSplit == DOMAIN ret = 0..(args.num_workers - 1)

RECURSIVE Concat(_, _, _)
Concat(f, w, n) == IF w >= n THEN <<>> ELSE f[w].value \o Concat(f, w + 1, n)

SeqRange(q) == {q[j] : j \in 1..Len(q)}

\* C10: with N >= W >= 1 every worker's call returns a contiguous run of the
\* scene file paths, the runs of different workers are disjoint, and the runs
\* of workers 0..W-1 put end to end are the whole list (each path once, the
\* last worker taking the remainder); with N < W every call raises.
C10_SplitPartitionsScenes ==
    LET N == args.num_scenes
        W == args.num_workers
        per == N \div W
    IN  IF N < W
        THEN \A w \in DOMAIN ret : ret[w].status # "ok"
        ELSE /\ \A w \in DOMAIN ret :
                /\ ret[w].status = "ok"
                /\ ret[w].value =
                      SubSeq(ScenePaths(N), w * per + 1,
                             IF w = W - 1 THEN N ELSE (w + 1) * per)
             /\ \A v \in DOMAIN ret : \A w \in DOMAIN ret :
                    v # w => SeqRange(ret[v].value) \cap SeqRange(ret[w].value) = {}
             /\ AllSplit => Concat(ret, 0, W) = ScenePaths(N)

C10_Witness ==
    /\ AllSplit
    /\ args.num_workers >= 3
    /\ args.num_scenes > args.num_workers
    /\ args.num_scenes % args.num_workers > 1
    /\ Len(ret[args.num_workers - 1].value) > Len(ret[0].value) + 1

====
